---- MODULE Spec2Model ----
(***************************************************************************)
(* rancherd, package cacerts: trust bootstrap of a joining node.           *)
(*                                                                         *)
(* CACerts obtains the server's CA bundle (probe with the default trust    *)
(* store, then a skip-verify request whose answer is checked by an         *)
(* HMAC-SHA512 keyed by the join token); get uses the bundle to fetch a    *)
(* protected resource.  The network and the tpm package are the            *)
(* environment: every response they can give is a nondeterministic choice. *)
(*                                                                         *)
(* Go values: a []byte is a tuple of bytes, the nil slice is Nil; a string *)
(* produced by an encoder is a tagged tuple, the empty string is EmptyStr; *)
(* an error is a string naming its origin, the nil error is NoErr.         *)
(***************************************************************************)
EXTENDS Integers, Sequences, FiniteSets, TLC

\* ------------------------------------------------------------------ bounds

\* Calls made one after the other in one run (the later ones can be
\* replayed the responses of the earlier ones).
MaxAttempts == 2

\* Writes of the secret by other clients of the API server.
MaxOtherWrites == 1

\* ------------------------------------------------------- program constants

\* Block size of SHA-512 in bytes: hmac.New(sha512.New, key) pads or
\* digests the key to this size.
BlockSize == 128

\* Size of a SHA-512 digest in bytes.
DigestSize == 64

StatusOK == 200

\* Timeout of insecureClient and of the pinned client, in seconds.
Timeout == 5

\* Timeout of http.DefaultClient: the zero value, which means no timeout.
NoTimeout == 0

\* ---------------------------------------------------------------- inputs

\* The calls that can be in progress at the same time, and the one slot
\* the sequential specification uses.
Calls == {1, 2}
SeqCalls == {1}

\* Join tokens.  <<1>> and <<1, 0>> differ by one trailing zero byte.
Tokens == {<<1>>, <<1, 0>>, <<2>>}

\* Values randomtoken.Generate can return (alphanumeric, so no zero byte).
Nonces == {<<3>>, <<4>>}

\* Bodies the cacerts endpoint can answer with: none, or a bundle.
Bodies == {<<>>, <<7>>}

\* Bodies the resource path can answer with.
Resources == {<<>>, <<8>>}

\* Status codes the network can deliver.
Statuses == {StatusOK, 500}

ServerOK == "https://rancher:443"
ServerBad == "https://rancher:bad"
Servers == {ServerOK, ServerBad}

Paths == {"/v1-rancheros/connect-info"}

\* --------------------------------------------------------------- Go values

Nil == <<-1>>
EmptyStr == <<>>
NoErr == "nil"

\* len(b) of a []byte
len(b) == IF b = Nil THEN 0 ELSE Len(b)

\* What ioutil.ReadAll / a caller sees of a nil slice: no bytes.
bytesOf(b) == IF b = Nil THEN <<>> ELSE b

\* ------------------------------------------------------------------ hashes

RECURSIVE StripZeros(_)
StripZeros(k) ==
    IF k # <<>> /\ k[Len(k)] = 0 THEN StripZeros(SubSeq(k, 1, Len(k) - 1)) ELSE k

\* The bits of n, most significant first, in a field of w bits, and back.
bitsOf(n, w) == SubSeq([i \in 1..w |-> (n \div 2 ^ (w - i)) % 2], 1, w)

RECURSIVE valueOf(_)
valueOf(b) ==
    IF Len(b) = 1 THEN b[1]
    ELSE LET low == Len(b) \div 2
         IN valueOf(SubSeq(b, 1, Len(b) - low)) * 2 ^ low
                + valueOf(SubSeq(b, Len(b) - low + 1, Len(b)))

\* A 64-bit word from its four 16-bit quarters, and quarter j of a word.
wordOf(q) == bitsOf(q[1], 16) \o bitsOf(q[2], 16) \o bitsOf(q[3], 16) \o bitsOf(q[4], 16)
quarter(a, j) == valueOf(SubSeq(a, 16 * j - 15, 16 * j))

bitXor(a, b) == SubSeq([i \in 1..64 |-> (a[i] + b[i]) % 2], 1, 64)
bitAnd(a, b) == SubSeq([i \in 1..64 |-> a[i] * b[i]], 1, 64)
bitNot(a) == SubSeq([i \in 1..64 |-> 1 - a[i]], 1, 64)
rotr(a, n) == SubSeq(a, 65 - n, 64) \o SubSeq(a, 1, 64 - n)
shr(a, n) == bitsOf(0, n) \o SubSeq(a, 1, 64 - n)

RECURSIVE total(_)
total(ns) == IF ns = <<>> THEN 0 ELSE Head(ns) + total(Tail(ns))

\* The sum of the words ws (at most five) modulo 2^64, quarter by quarter
\* with the carries.
addAll(ws) ==
    LET col(j) == total(SubSeq([i \in 1..Len(ws) |-> quarter(ws[i], j)], 1, Len(ws)))
        s4 == col(4)
        s3 == col(3) + s4 \div 65536
        s2 == col(2) + s3 \div 65536
        s1 == col(1) + s2 \div 65536
    IN wordOf(<<s1 % 65536, s2 % 65536, s3 % 65536, s4 % 65536>>)

\* Addition modulo 2^64
add(a, b) == addAll(<<a, b>>)

\* The initial hash value and the round constants, in 16-bit quarters.
initialHash ==
    <<<<27145, 58983, 62396, 51464>>, <<47975, 44677, 33994, 42811>>,
      <<15470, 62322, 65172, 63531>>, <<42319, 62778, 24349, 14065>>,
      <<20750, 21119, 44518, 33489>>, <<39685, 26764, 11070, 27679>>,
      <<8067, 55723, 64321, 48491>>, <<23520, 52505, 4990, 8569>>>>

roundConstants ==
    <<<<17034, 12184, 55080, 44578>>, <<28983, 17553, 9199, 26061>>,
      <<46528, 64463, 60493, 15151>>, <<59829, 56229, 33161, 56252>>,
      <<14678, 49755, 62280, 46392>>, <<23025, 4593, 46597, 53273>>,
      <<37439, 33444, 44825, 20379>>, <<43804, 24277, 55917, 33048>>,
      <<55303, 43672, 41731, 578>>, <<4739, 23297, 17776, 28606>>,
      <<9265, 34238, 20196, 45708>>, <<21772, 32195, 54783, 46306>>,
      <<29374, 23924, 62075, 35183>>, <<32990, 45566, 15126, 38577>>,
      <<39900, 1703, 9671, 4661>>, <<49563, 61812, 53097, 9876>>,
      <<58523, 27073, 40689, 19154>>, <<61374, 18310, 14415, 9699>>,
      <<4033, 40390, 35724, 54709>>, <<9228, 41420, 30636, 40037>>,
      <<11753, 11375, 22827, 629>>, <<19060, 33962, 28326, 58499>>,
      <<23728, 43484, 48449, 64468>>, <<30457, 35034, 33553, 21429>>,
      <<38974, 20818, 61030, 57259>>, <<43057, 50797, 11700, 12816>>,
      <<45059, 10184, 39163, 8511>>, <<48985, 32711, 48879, 3812>>,
      <<50912, 3059, 15784, 36802>>, <<54695, 37191, 37642, 42789>>,
      <<1738, 25425, 57347, 33391>>, <<5161, 10599, 2574, 28272>>,
      <<10167, 2693, 18130, 12284>>, <<11803, 8504, 23590, 51494>>,
      <<19756, 28156, 23236, 10989>>, <<21304, 3347, 40341, 46047>>,
      <<25866, 29524, 35759, 25566>>, <<30314, 2747, 15479, 45736>>,
      <<33218, 51502, 18413, 44774>>, <<37490, 11397, 5250, 13627>>,
      <<41663, 59553, 19697, 868>>, <<43034, 26187, 48194, 12289>>,
      <<49739, 35696, 53496, 38801>>, <<51052, 20899, 1620, 48688>>,
      <<53650, 59417, 55023, 21016>>, <<54937, 1572, 21861, 43280>>,
      <<62478, 13701, 22385, 8234>>, <<4202, 41072, 12987, 53688>>,
      <<6564, 49430, 47314, 53448>>, <<7735, 27656, 20801, 43859>>,
      <<10056, 30540, 57230, 60313>>, <<13488, 48309, 57755, 18600>>,
      <<14620, 3251, 50633, 23139>>, <<20184, 43594, 58177, 35531>>,
      <<23452, 51791, 30563, 58227>>, <<26670, 28659, 54962, 47267>>,
      <<29839, 33518, 24047, 45820>>, <<30885, 25455, 17175, 12128>>,
      <<33992, 30740, 41456, 43890>>, <<36039, 520, 6756, 14828>>,
      <<37054, 65530, 9059, 7720>>, <<42064, 27883, 56962, 48617>>,
      <<48889, 41975, 45766, 30997>>, <<50801, 30962, 58226, 21291>>,
      <<51751, 16078, 59942, 24988>>, <<53638, 47303, 8640, 49671>>,
      <<60122, 32214, 52704, 60190>>, <<62845, 20351, 61038, 53624>>,
      <<1776, 26538, 29207, 28602>>, <<2659, 32197, 41672, 39078>>,
      <<4415, 38916, 48889, 3502>>, <<7025, 2869, 4892, 18203>>,
      <<10459, 30709, 8964, 32132>>, <<13002, 43899, 16583, 9363>>,
      <<15518, 48650, 5577, 48828>>, <<17181, 26564, 39952, 3404>>,
      <<19653, 54462, 52030, 17078>>, <<22911, 10652, 64613, 32298>>,
      <<24523, 28587, 15062, 64236>>, <<27716, 6540, 19015, 22551>>>>

bigSigma0(a) == bitXor(bitXor(rotr(a, 28), rotr(a, 34)), rotr(a, 39))
bigSigma1(a) == bitXor(bitXor(rotr(a, 14), rotr(a, 18)), rotr(a, 41))
smallSigma0(a) == bitXor(bitXor(rotr(a, 1), rotr(a, 8)), shr(a, 7))
smallSigma1(a) == bitXor(bitXor(rotr(a, 19), rotr(a, 61)), shr(a, 6))
choose(e, f, g) == bitXor(bitAnd(e, f), bitAnd(bitNot(e), g))
majority(a, b, c) == bitXor(bitXor(bitAnd(a, b), bitAnd(a, c)), bitAnd(b, c))

\* The message with its padding: the byte 0x80, zero bytes, and the length
\* of the message in bits in 16 bytes.
padded(msg) ==
    LET n == 8 * Len(msg)
    IN msg \o <<128>> \o [i \in 1..((239 - Len(msg)) % 128) |-> 0]
           \o [i \in 1..12 |-> 0]
           \o <<(n \div 16777216) % 256, (n \div 65536) % 256, (n \div 256) % 256, n % 256>>

\* Word t of a block of 128 bytes
blockWord(block, t) ==
    SubSeq([i \in 1..64 |->
               (block[8 * t - 7 + ((i - 1) \div 8)] \div 2 ^ (7 - ((i - 1) % 8))) % 2], 1, 64)

\* The message schedule w extended by k words.  (Here and below a set
\* binds v to the value of one step before the next step is computed.)
RECURSIVE extended(_, _)
extended(w, k) ==
    IF k = 1
    THEN LET t == Len(w) + 1
         IN Append(w, addAll(<<smallSigma1(w[t - 2]), w[t - 7],
                            smallSigma0(w[t - 15]), w[t - 16]>>))
    ELSE CHOOSE r \in {extended(v, k - k \div 2) : v \in {extended(w, k \div 2)}} : TRUE

\* The schedule of 80 words from the 16 words of the block
schedule(w) == extended(w, 64)

\* Round t on the working variables s = <<a, b, c, d, e, f, g, h>>
round(s, w, t) ==
    CHOOSE r \in
        {<<add(t1, t2), s[1], s[2], s[3], add(s[4], t1), s[5], s[6], s[7]>> :
            t1 \in {addAll(<<s[8], bigSigma1(s[5]), choose(s[5], s[6], s[7]),
                             wordOf(roundConstants[t]), w[t]>>)},
            t2 \in {add(bigSigma0(s[1]), majority(s[1], s[2], s[3]))}} : TRUE

\* Rounds lo to hi
RECURSIVE rounds(_, _, _, _)
rounds(s, w, lo, hi) ==
    IF lo = hi THEN round(s, w, lo)
    ELSE LET mid == (lo + hi) \div 2
         IN CHOOSE r \in {rounds(v, w, mid + 1, hi) : v \in {rounds(s, w, lo, mid)}} : TRUE

compress(h, block) ==
    CHOOSE r \in
        {<<add(h[1], s[1]), add(h[2], s[2]), add(h[3], s[3]), add(h[4], s[4]),
           add(h[5], s[5]), add(h[6], s[6]), add(h[7], s[7]), add(h[8], s[8])>> :
            s \in {rounds(h, w, 1, 80) :
                      w \in {schedule(SubSeq([t \in 1..16 |-> blockWord(block, t)], 1, 16))}}} :
        TRUE

RECURSIVE digestOf(_, _)
digestOf(h, bytes) ==
    IF bytes = <<>> THEN h
    ELSE CHOOSE r \in {digestOf(v, SubSeq(bytes, 129, Len(bytes))) :
                        v \in {compress(h, SubSeq(bytes, 1, 128))}} : TRUE

\* sha512.Sum512: the digest of k, DigestSize bytes
sha512(k) ==
    CHOOSE r \in
        {SubSeq([i \in 1..DigestSize |->
                    valueOf(SubSeq(h[(i + 7) \div 8], 8 * ((i - 1) % 8) + 1,
                                   8 * ((i - 1) % 8) + 8))], 1, DigestSize) :
            h \in {digestOf(v, m) :
                      v \in {SubSeq([i \in 1..8 |-> wordOf(initialHash[i])], 1, 8)},
                      m \in {padded(k)}}} : TRUE

\* A join token longer than the block of SHA-512, whose digest ends in a
\* zero byte ("aa...a97", 131 bytes), its digest sha512(LongToken) written
\* out, and the digest without its last byte.
LongToken == [i \in 1..(BlockSize + 1) |-> 97] \o <<57, 55>>
LongDigest ==
    <<9, 196, 13, 154, 174, 98, 19, 208, 148, 144, 143, 229, 131, 151, 209, 34,
      29, 165, 183, 189, 5, 250, 71, 227, 236, 106, 207, 2, 136, 110, 233, 237,
      112, 172, 222, 143, 101, 222, 244, 177, 117, 123, 222, 188, 117, 247, 150, 201,
      221, 164, 83, 173, 189, 187, 185, 209, 130, 202, 11, 187, 239, 99, 253, 0>>
ShortDigest == SubSeq(LongDigest, 1, DigestSize - 1)

\* The key HMAC works with: a key longer than the block is replaced by its
\* digest; the key is then padded with zero bytes to the block size (so
\* trailing zero bytes of the key or of the digest do not matter, and a
\* long key and its digest are the same key).  The digest of LongToken is
\* computed once.
hmacKey(key) ==
    IF Len(key) > BlockSize
    THEN StripZeros(IF key = LongToken THEN LongDigest ELSE sha512(key))
    ELSE StripZeros(key)

\* The tokens that exercise the keying of the HMAC: two that differ by a
\* trailing zero byte, the long token, and its digest, whole and without
\* its last byte, used as a token.
KeyTokens == {<<1>>, <<1, 0>>, LongToken, LongDigest, ShortDigest}

hmacSHA512(key, msg) == [alg |-> "hmac-sha512", key |-> hmacKey(key), msg |-> msg]

sha256(b) == [alg |-> "sha256", key |-> hmacKey(<<>>), msg |-> b]

base64(x) == <<"base64", x>>

hex(x) == <<"hex", x>>

\* base64 of the raw bytes of a string
base64Raw(b) == <<"base64", [alg |-> "raw", key |-> hmacKey(<<>>), msg |-> b]>>

hashHex(b) == hex(sha256(bytesOf(b)))

\* A bearer value that is the encoded token itself.
hashBase64Reversible(token) == base64Raw(token)

hashBase64(token) == base64(sha256(token))

\* A hash that leaves the nonce out of the message.
hashWithoutNonce(token, nonce, bytes) ==
    base64(hmacSHA512(token, <<0>> \o bytesOf(bytes) \o <<0>>))

hash(token, nonce, bytes) ==
    base64(hmacSHA512(token, nonce \o <<0>> \o bytesOf(bytes) \o <<0>>))

\* -------------------------------------------------------------------- URLs

\* A server URL that is never checked.
parseAlwaysOK(server) == TRUE

\* url.Parse(server): the host, or a parse error
parseOK(server) == server = ServerOK

hostOf(server) == IF server = ServerOK THEN "rancher:443" ELSE ""

cacertsPath(clusterToken) == IF clusterToken THEN "/cacerts" ELSE "/v1-rancheros/cacerts"

\* -------------------------------------------------------------------- state

VARIABLES
    pc,         \* where each call stands
    fn,         \* the exported function called: "Get", "MachineGet", "CACerts"
    server,     \* argument server
    argToken,   \* argument token, as the caller passed it
    path,       \* argument path
    clusterToken, \* argument / flag clusterToken
    token,      \* the local variable token (get overwrites it with the resolved token)
    isTPM,      \* the local variable isTPM
    nonce,      \* the nonce of this call's CACerts
    caRet,      \* what CACerts returned: bundle, checksum, err
    ret,        \* what the call returned: data, checksum, err
    sent,       \* the HTTP requests the call sent, in order
    probeResp,  \* the probe's outcome
    bootResp,   \* the response to the bootstrap request
    tpmCall,    \* the arguments of the call of tpm.Get
    fetchResp,  \* the response to the resource fetch
    resolveRet, \* what tpm.ResolveToken returned
    held,       \* what the call has acquired and not released
    accepted,   \* bootstrap responses that passed verification, by attempt
    attempts    \* calls started so far

\* The state of UpdateClientSecret (pkg/rancher/cluster.go) and of the
\* API server it talks to.
VARIABLES
    upc,        \* where the call of UpdateClientSecret stands
    urlRead,    \* the read of setting internal-server-url: err and value
    caRead,     \* the read of setting internal-cacerts: err and value
    secret,     \* secret fleet-local/local-kubeconfig on the API server
    toUpdate,   \* the local variable toUpdate
    uret,       \* the error UpdateClientSecret returned
    writes,     \* the updates of the secret the call made: before and after
    others      \* writes of the secret by other clients so far

callVars == <<pc, fn, server, argToken, path, clusterToken, token, isTPM, nonce,
              caRet, ret, sent, probeResp, bootResp, tpmCall, fetchResp,
              resolveRet, held, accepted, attempts>>

secretVars == <<upc, urlRead, caRead, secret, toUpdate, uret, writes, others>>

vars == <<callVars, secretVars>>

NoRet == [data |-> Nil, sum |-> EmptyStr, err |-> "pending"]
NoResp == [kind |-> "none", status |-> 0, body |-> Nil, header |-> EmptyStr]
NoTpmCall == [called |-> FALSE, cacert |-> Nil, url |-> <<"", "">>]
NoResolve == [called |-> FALSE, isTPM |-> FALSE, token |-> <<>>, err |-> "pending"]

\* A setting not read yet, and the outcomes of reading one: the request
\* fails, or the object comes back with its value, a string, or without one.
NotRead == [done |-> FALSE, err |-> "pending", value |-> Nil]
SettingValues == {<<>>, <<5>>, <<6>>}
SettingReads ==
    {[done |-> TRUE, err |-> "get", value |-> Nil]}
        \cup {[done |-> TRUE, err |-> NoErr, value |-> v] : v \in SettingValues \cup {Nil}}

\* The keys of the secret's data, and the secret as the API server may hold
\* it: absent, without data, with the kubeconfig only, or already updated.
UpdatedKeys == {"apiServerURL", "apiServerCA"}
Keys == UpdatedKeys \cup {"value"}
NoData == [k \in {} |-> <<>>]
Kubeconfig == [k \in {"value"} |-> <<9>>]
Updated == [k \in Keys |-> IF k = "value" THEN <<9>> ELSE <<4>>]
NoSecret == [exists |-> FALSE, hasData |-> FALSE, data |-> NoData, rv |-> 0]
SecretOf(d, has) == [exists |-> TRUE, hasData |-> has, data |-> d, rv |-> 1]
SecretStates ==
    {NoSecret, SecretOf(NoData, FALSE), SecretOf(Kubeconfig, TRUE), SecretOf(Updated, TRUE)}

InitSecret(s) ==
    /\ upc = "idle"
    /\ urlRead = NotRead
    /\ caRead = NotRead
    /\ secret = s
    /\ toUpdate = NoSecret
    /\ uret = "pending"
    /\ writes = <<>>
    /\ others = 0

InitCalls ==
    /\ pc = [c \in Calls |-> "idle"]
    /\ fn = [c \in Calls |-> "none"]
    /\ server = [c \in Calls |-> ServerOK]
    /\ argToken = [c \in Calls |-> <<>>]
    /\ path = [c \in Calls |-> ""]
    /\ clusterToken = [c \in Calls |-> FALSE]
    /\ token = [c \in Calls |-> <<>>]
    /\ isTPM = [c \in Calls |-> FALSE]
    /\ nonce = [c \in Calls |-> <<>>]
    /\ caRet = [c \in Calls |-> NoRet]
    /\ ret = [c \in Calls |-> NoRet]
    /\ sent = [c \in Calls |-> <<>>]
    /\ probeResp = [c \in Calls |-> NoResp]
    /\ bootResp = [c \in Calls |-> NoResp]
    /\ tpmCall = [c \in Calls |-> NoTpmCall]
    /\ fetchResp = [c \in Calls |-> NoResp]
    /\ resolveRet = [c \in Calls |-> NoResolve]
    /\ held = [c \in Calls |-> {}]
    /\ accepted = {}
    /\ attempts = 0

Init == InitCalls /\ InitSecret(SecretOf(Kubeconfig, TRUE))

\* ------------------------------------------------------------ environment

NoAuth == EmptyStr
Bearer(x) == <<"Bearer", x>>

\* Values the X-Cattle-Hash response header can carry: absent (Header.Get
\* gives ""), or the hash of some token, nonce and body.
Headers ==
    {EmptyStr}
        \cup {hash(t, n, b) : t \in Tokens, n \in Nonces, b \in Bodies}
        \cup {hash(LongToken, n, <<7>>) : n \in Nonces}

TransportError == [kind |-> "error", status |-> 0, body |-> Nil, header |-> EmptyStr]

\* The server accepts the connection and never answers.
Hang == [kind |-> "hang", status |-> 0, body |-> Nil, header |-> EmptyStr]

\* What a round trip can give: a transport error (client.Do fails), a
\* response whose body is read to the end, a response whose body breaks
\* off while it is read ("readerr": body is what ReadAll had read), or no
\* answer at all.
ProbeOutcomes ==
    {TransportError, Hang}
    \cup {[kind |-> k, status |-> st, body |-> b, header |-> EmptyStr] :
              k \in {"resp", "readerr"}, st \in Statuses, b \in Bodies}

BootstrapOutcomes ==
    {TransportError, Hang}
    \cup {[kind |-> k, status |-> st, body |-> b, header |-> h] :
              k \in {"resp", "readerr"}, st \in Statuses, b \in Bodies, h \in Headers}

FetchOutcomes ==
    {TransportError, Hang}
    \cup {[kind |-> k, status |-> st, body |-> b, header |-> EmptyStr] :
              k \in {"resp", "readerr"}, st \in Statuses, b \in Resources}

\* tpm.ResolveToken(token): (isTPM, resolved token, err).  A token that is
\* no hardware reference passes through unchanged.
ResolveOutcomes(t) ==
    {[isTPM |-> FALSE, token |-> t, err |-> "resolve"]}
    \cup {[isTPM |-> FALSE, token |-> t, err |-> NoErr]}
    \cup {[isTPM |-> TRUE, token |-> r, err |-> NoErr] : r \in Tokens}

\* tpm.Get(cacert, url, nil): (data, err)
TpmGetOutcomes ==
    {[data |-> Nil, err |-> "tpm"]} \cup {[data |-> b, err |-> NoErr] : b \in Resources}

\* randomtoken.Generate(): (nonce, err)
NonceOutcomes ==
    {[nonce |-> EmptyStr, err |-> "nonce"]} \cup {[nonce |-> n, err |-> NoErr] : n \in Nonces}

\* ------------------------------------------------------------------- code

Ret(data, sum, err) == [data |-> data, sum |-> sum, err |-> err]

\* The Timeout field of each client: insecureClient (line 23), the client
\* get builds around the pinned pool (line 85), http.DefaultClient.
clientTimeout(client) == IF client \in {"insecure", "pinned"} THEN Timeout ELSE NoTimeout

\* http.DefaultClient and insecureClient are package-level values that all
\* calls use; the pinned client is a local of get.
clientShared(client) == client \in {"default", "insecure"}

Request(kind, client, pool, host, p, auth, n) ==
    [kind |-> kind, client |-> client, pool |-> pool, url |-> <<host, p>>,
     auth |-> auth, nonce |-> n, timeout |-> clientTimeout(client)]

\* client.Do against outcome o: a client with a timeout gives up on a
\* server that never answers and returns an error; one without waits on.
roundTrip(o, timeout) == IF o.kind = "hang" /\ timeout > 0 THEN TransportError ELSE o

\* What a round trip leaves behind once its body was read with ReadAll:
\* a body read to its end gives the connection back to the client's pool
\* of idle connections, where it stays open; a body that broke off closes
\* the connection.  closed: resp.Body.Close() was called.
leftBy(client, o, closed) ==
    (IF o.kind = "resp" THEN {<<"idle connection", client>>} ELSE {})
    \cup (IF o.kind \in {"resp", "readerr"} /\ ~closed
          THEN {<<"open body", client>>} ELSE {})

\* client.CloseIdleConnections()
closeIdle(h, client) == h \ {<<"idle connection", client>>}

\* The unresolved argument handed on instead of the resolved token.
caTokenUnresolved(arg, local) == arg

\* get, line 57: the token handed to CACerts is the local variable token,
\* which line 51 has overwritten with the resolved token.
caToken(arg, local) == local

\* A probe whose outcome is not looked at: the bootstrap request always follows.
probeNeverSucceeds(o) == FALSE

\* A probe that counts as succeeded only with status 200.
probeSucceededOn200(o) == o.kind # "error" /\ o.status = StatusOK

\* CACerts, line 124: the probe succeeded when http.Get returned no error.
probeSucceeded(o) == o.kind # "error"

\* A status check that lets every status >= 200 pass.
statusAtLeast200(status) == status >= StatusOK

\* CACerts, line 148
statusOK(status) == status = StatusOK

\* A check that lets a response without the header pass.
verifiedOrAbsent(header, tok, n, data) == header = EmptyStr \/ header = hash(tok, n, data)

\* A check against the hash of the body alone, under a fixed nonce.
verifiedFixedNonce(header, tok, n, data) == \E m \in Nonces : header = hash(tok, m, data)

\* CACerts, line 152
verified(header, tok, n, data) == header = hash(tok, n, data)

\* A return without the special case of the empty body.
bundleOfAlways(data) == Ret(data, hashHex(data), NoErr)

\* CACerts, lines 158-162: the bundle and checksum of a verified body
bundleOf(data) ==
    IF len(data) = 0 THEN Ret(Nil, EmptyStr, NoErr) ELSE Ret(data, hashHex(data), NoErr)

\* A caller that goes on without looking at the error of CACerts.
CACertsReturnsUnchecked(c, r) ==
    /\ caRet' = [caRet EXCEPT ![c] = r]
    /\ IF fn[c] = "CACerts"
       THEN /\ ret' = [ret EXCEPT ![c] = r]
            /\ pc' = [pc EXCEPT ![c] = "done"]
       ELSE /\ ret' = ret
            /\ pc' = [pc EXCEPT ![c] = IF isTPM[c] THEN "tpmget" ELSE "fetch"]

\* The return of CACerts, and what its caller does with it: the caller of
\* the exported CACerts gets it as it is; get (lines 57-65) returns its
\* error, or goes on to the hardware retrieval or to the fetch.
CACertsReturns(c, r) ==
    /\ caRet' = [caRet EXCEPT ![c] = r]
    /\ IF fn[c] = "CACerts"
       THEN /\ ret' = [ret EXCEPT ![c] = r]
            /\ pc' = [pc EXCEPT ![c] = "done"]
       ELSE IF r.err # NoErr
       THEN /\ ret' = [ret EXCEPT ![c] = Ret(Nil, EmptyStr, r.err)]
            /\ pc' = [pc EXCEPT ![c] = "done"]
       ELSE /\ ret' = ret
            /\ pc' = [pc EXCEPT ![c] = IF isTPM[c] THEN "tpmget" ELSE "fetch"]

\* Get / MachineGet called: get, lines 40-49.
GetCall(c, f, s, t, p) ==
    /\ pc[c] = "idle"
    /\ attempts < MaxAttempts
    /\ attempts' = attempts + 1
    /\ fn' = [fn EXCEPT ![c] = f]
    /\ server' = [server EXCEPT ![c] = s]
    /\ argToken' = [argToken EXCEPT ![c] = t]
    /\ token' = [token EXCEPT ![c] = t]
    /\ path' = [path EXCEPT ![c] = p]
    /\ clusterToken' = [clusterToken EXCEPT ![c] = (f = "Get")]
    /\ IF ~parseOK(s)
       THEN /\ ret' = [ret EXCEPT ![c] = Ret(Nil, EmptyStr, "parse")]
            /\ pc' = [pc EXCEPT ![c] = "done"]
       ELSE /\ ret' = ret
            /\ pc' = [pc EXCEPT ![c] = IF f = "Get" THEN "cacerts" ELSE "resolve"]
    /\ UNCHANGED <<isTPM, nonce, caRet, sent, probeResp, bootResp, tpmCall,
                   fetchResp, resolveRet, held, accepted>>

\* get, lines 50-55
ResolveToken(c) ==
    /\ pc[c] = "resolve"
    /\ \E o \in ResolveOutcomes(token[c]) :
        /\ resolveRet' = [resolveRet EXCEPT ![c] =
              [called |-> TRUE, isTPM |-> o.isTPM, token |-> o.token, err |-> o.err]]
        /\ IF o.err # NoErr
          THEN /\ ret' = [ret EXCEPT ![c] = Ret(Nil, EmptyStr, o.err)]
               /\ pc' = [pc EXCEPT ![c] = "done"]
               /\ UNCHANGED <<isTPM, token>>
          ELSE /\ isTPM' = [isTPM EXCEPT ![c] = o.isTPM]
               /\ token' = [token EXCEPT ![c] = o.token]
               /\ pc' = [pc EXCEPT ![c] = "cacerts"]
               /\ ret' = ret
    /\ UNCHANGED <<fn, server, argToken, path, clusterToken, nonce, caRet, sent,
                   probeResp, bootResp, tpmCall, fetchResp, held, accepted, attempts>>

\* The exported CACerts called by another package (or by ToFile, line 176).
CACertsCall(c, s, t, ct) ==
    /\ pc[c] = "idle"
    /\ attempts < MaxAttempts
    /\ attempts' = attempts + 1
    /\ fn' = [fn EXCEPT ![c] = "CACerts"]
    /\ server' = [server EXCEPT ![c] = s]
    /\ argToken' = [argToken EXCEPT ![c] = t]
    /\ token' = [token EXCEPT ![c] = t]
    /\ clusterToken' = [clusterToken EXCEPT ![c] = ct]
    /\ pc' = [pc EXCEPT ![c] = "cacerts"]
    /\ UNCHANGED <<path, isTPM, nonce, caRet, ret, sent, probeResp, bootResp,
                   tpmCall, fetchResp, resolveRet, held, accepted>>

\* CACerts, lines 108-122: the nonce, the server URL, the request URL.
CACertsEntry(c) ==
    /\ pc[c] = "cacerts"
    /\ \E o \in NonceOutcomes :
          IF o.err # NoErr
          THEN /\ nonce' = nonce
               /\ CACertsReturns(c, Ret(Nil, EmptyStr, o.err))
          ELSE /\ nonce' = [nonce EXCEPT ![c] = o.nonce]
               /\ IF ~parseOK(server[c])
                  THEN CACertsReturns(c, Ret(Nil, EmptyStr, "parse"))
                  ELSE /\ pc' = [pc EXCEPT ![c] = "probe"]
                       /\ UNCHANGED <<caRet, ret>>
    /\ UNCHANGED <<fn, server, argToken, path, clusterToken, token, isTPM, sent,
                   probeResp, bootResp, tpmCall, fetchResp, resolveRet, held,
                   accepted, attempts>>

\* A response whose header has arrived and whose body has not been read.
headOf(o) == [o EXCEPT !.kind = "head", !.body = Nil]

\* The outcomes of reading the body of the response with header h: the
\* body read to its end, or broken off.
readsOf(outcomes, h) ==
    {o \in outcomes : /\ o.kind \in {"resp", "readerr"}
                      /\ o.status = h.status
                      /\ o.header = h.header}

\* ioutil.ReadAll on the body of the response with header h, through a
\* client with the given timeout: the client's timeout also ends a read
\* that stalls (the read fails); without a timeout a stalled read never
\* returns.
bodyReads(outcomes, h, timeout) ==
    readsOf(outcomes, h) \cup (IF timeout > 0 THEN {} ELSE {Hang})

\* The body of a response that is being read: open until it is closed.
openBody(client) == {<<"open body", client>>}

\* CACerts, line 124: http.Get writes the probe and waits for the answer.
ProbeSend(c) ==
    /\ pc[c] = "probe"
    /\ sent' = [sent EXCEPT ![c] = Append(@,
                 Request("probe", "default", Nil, hostOf(server[c]),
                         cacertsPath(clusterToken[c]), NoAuth, EmptyStr))]
    /\ pc' = [pc EXCEPT ![c] = "probewait"]
    /\ UNCHANGED <<fn, server, argToken, path, clusterToken, token, isTPM, nonce,
                   caRet, ret, probeResp, bootResp, tpmCall, fetchResp, resolveRet,
                   held, accepted, attempts>>

\* CACerts, line 124: http.Get returns, with an error or with a response
\* whose body is still to be read, or never returns.
ProbeAnswer(c) ==
    /\ pc[c] = "probewait"
    /\ \E o \in ProbeOutcomes :
        LET e == roundTrip(o, clientTimeout("default")) IN
          IF e.kind = "hang"
          THEN /\ pc' = [pc EXCEPT ![c] = "blocked"]
               /\ probeResp' = [probeResp EXCEPT ![c] = e]
               /\ held' = held
          ELSE IF probeSucceeded(e)
          THEN /\ pc' = [pc EXCEPT ![c] = "proberead"]
               /\ probeResp' = [probeResp EXCEPT ![c] = headOf(e)]
               /\ held' = [held EXCEPT ![c] = @ \cup openBody("default")]
          ELSE /\ pc' = [pc EXCEPT ![c] = "bootstrap"]
               /\ probeResp' = [probeResp EXCEPT ![c] = e]
               /\ held' = [held EXCEPT ![c] = @ \cup leftBy("default", e, TRUE)]
    /\ UNCHANGED <<fn, server, argToken, path, clusterToken, token, isTPM, nonce,
                   caRet, ret, sent, bootResp, tpmCall, fetchResp, resolveRet,
                   accepted, attempts>>

\* CACerts, lines 125-127: the probe's body is read and closed, and
\* CACerts returns.
ProbeRead(c) ==
    /\ pc[c] = "proberead"
    /\ \E o \in bodyReads(ProbeOutcomes, probeResp[c], clientTimeout("default")) :
          IF o.kind = "hang"
          THEN /\ pc' = [pc EXCEPT ![c] = "blocked"]
               /\ UNCHANGED <<probeResp, held, caRet, ret>>
          ELSE /\ probeResp' = [probeResp EXCEPT ![c] = o]
               /\ held' = [held EXCEPT ![c] =
                     (@ \ openBody("default")) \cup leftBy("default", o, TRUE)]
               /\ CACertsReturns(c, Ret(Nil, EmptyStr, NoErr))
    /\ UNCHANGED <<fn, server, argToken, path, clusterToken, token, isTPM, nonce,
                   sent, bootResp, tpmCall, fetchResp, resolveRet, accepted, attempts>>

\* A nonce kept in one package-level variable, which holds what the call
\* in slot 1 generated.
sharedNonce(c) == nonce[1]

\* CACerts, line 109: the nonce is a local variable of the call.
ownNonce(c) == nonce[c]

\* CACerts, lines 130-137: insecureClient.Do writes the bootstrap request
\* and waits for the answer.
BootstrapSend(c) ==
    /\ pc[c] = "bootstrap"
    /\ sent' = [sent EXCEPT ![c] = Append(@,
                 Request("bootstrap", "insecure", Nil, hostOf(server[c]),
                         cacertsPath(clusterToken[c]),
                         Bearer(hashBase64(caToken(argToken[c], token[c]))), ownNonce(c)))]
    /\ pc' = [pc EXCEPT ![c] = "bootwait"]
    /\ UNCHANGED <<fn, server, argToken, path, clusterToken, token, isTPM, nonce,
                   caRet, ret, probeResp, bootResp, tpmCall, fetchResp, resolveRet,
                   held, accepted, attempts>>

\* CACerts, lines 137-141: insecureClient.Do returns, with an error (also
\* when its timeout ends the wait) or with a response whose body is still
\* to be read.
BootstrapAnswer(c) ==
    /\ pc[c] = "bootwait"
    /\ \E x \in BootstrapOutcomes :
        LET o == roundTrip(x, clientTimeout("insecure")) IN
          IF o.kind = "error"
          THEN /\ bootResp' = [bootResp EXCEPT ![c] = o]
               /\ held' = held
               /\ CACertsReturns(c, Ret(Nil, EmptyStr, "transport"))
          ELSE /\ bootResp' = [bootResp EXCEPT ![c] = headOf(o)]
               /\ held' = [held EXCEPT ![c] = @ \cup openBody("insecure")]
               /\ pc' = [pc EXCEPT ![c] = "bootread"]
               /\ UNCHANGED <<caRet, ret>>
    /\ UNCHANGED <<fn, server, argToken, path, clusterToken, token, isTPM, nonce,
                   sent, probeResp, tpmCall, fetchResp, resolveRet, accepted, attempts>>

\* CACerts, lines 142-163: the body is read, the answer is checked, and
\* the deferred Close runs as CACerts returns.
BootstrapRead(c) ==
    /\ pc[c] = "bootread"
    /\ \E o \in bodyReads(BootstrapOutcomes, bootResp[c], clientTimeout("insecure")) :
          /\ bootResp' = [bootResp EXCEPT ![c] = o]
          /\ held' = [held EXCEPT ![c] =
                (@ \ openBody("insecure")) \cup leftBy("insecure", o, TRUE)]
          /\ IF o.kind = "readerr"
             THEN /\ CACertsReturns(c, Ret(Nil, EmptyStr, "read"))
                  /\ accepted' = accepted
             ELSE IF ~statusOK(o.status)
             THEN /\ CACertsReturns(c, Ret(Nil, EmptyStr, "status"))
                  /\ accepted' = accepted
             ELSE IF ~verified(o.header, caToken(argToken[c], token[c]), ownNonce(c), o.body)
             THEN /\ CACertsReturns(c, Ret(Nil, EmptyStr, "hash"))
                  /\ accepted' = accepted
             ELSE /\ CACertsReturns(c, bundleOf(o.body))
                  /\ accepted' = accepted \cup
                        {[attempt |-> attempts, token |-> caToken(argToken[c], token[c]),
                          nonce |-> ownNonce(c), body |-> o.body, header |-> o.header]}
    /\ UNCHANGED <<fn, server, argToken, path, clusterToken, token, isTPM, nonce,
                   sent, probeResp, tpmCall, fetchResp, resolveRet, attempts>>

\* get, lines 62-65: the hardware retrieval.
TpmGet(c) ==
    /\ pc[c] = "tpmget"
    /\ tpmCall' = [tpmCall EXCEPT ![c] =
                     [called |-> TRUE, cacert |-> caRet[c].data,
                      url |-> <<hostOf(server[c]), path[c]>>]]
    /\ \E o \in TpmGetOutcomes :
          ret' = [ret EXCEPT ![c] = Ret(o.data, caRet[c].sum, o.err)]
    /\ pc' = [pc EXCEPT ![c] = "done"]
    /\ UNCHANGED <<fn, server, argToken, path, clusterToken, token, isTPM, nonce,
                   caRet, sent, probeResp, bootResp, fetchResp, resolveRet, held,
                   accepted, attempts>>

\* get, lines 76 and 81-92: the client of the fetch
fetchClient(cacert) == IF len(cacert) = 0 THEN "default" ELSE "pinned"

\* A fetch that always carries the bearer header.
fetchAuthAlways(ct, tok) == Bearer(base64Raw(tok))

\* get, lines 71-73
fetchAuth(ct, tok) == IF ~ct THEN Bearer(base64Raw(tok)) ELSE NoAuth

\* A return whose checksum is computed from the fetched body.
fetchReturnBodySum(o, sum) ==
    IF o.status # StatusOK THEN Ret(Nil, EmptyStr, "status")
    ELSE Ret(o.body, hashHex(o.body), IF o.kind = "readerr" THEN "read" ELSE NoErr)

\* A return that does not look at the status.
fetchReturnAnyStatus(o, sum) ==
    Ret(o.body, sum, IF o.kind = "readerr" THEN "read" ELSE NoErr)

\* get, lines 101-105: what get returns once the response is there
fetchReturn(o, sum) ==
    IF o.status # StatusOK THEN Ret(Nil, EmptyStr, "status")
    ELSE Ret(o.body, sum, IF o.kind = "readerr" THEN "read" ELSE NoErr)

\* get, lines 67-95: client.Do writes the fetch request and waits for
\* the answer.
FetchSend(c) ==
    /\ pc[c] = "fetch"
    /\ sent' = [sent EXCEPT ![c] = Append(@,
                 Request("fetch", fetchClient(caRet[c].data),
                         IF len(caRet[c].data) = 0 THEN Nil ELSE caRet[c].data,
                         hostOf(server[c]), path[c],
                         fetchAuth(clusterToken[c], token[c]), EmptyStr))]
    /\ pc' = [pc EXCEPT ![c] = "fetchwait"]
    /\ UNCHANGED <<fn, server, argToken, path, clusterToken, token, isTPM, nonce,
                   caRet, ret, probeResp, bootResp, tpmCall, fetchResp, resolveRet,
                   held, accepted, attempts>>

\* get, lines 77-80 and 95-98: client.Do returns, with an error or with a
\* response whose body is still to be read, or never returns; the
\* deferred CloseIdleConnections of the pinned client runs as get returns.
FetchAnswer(c) ==
    /\ pc[c] = "fetchwait"
    /\ \E x \in FetchOutcomes :
        LET client == fetchClient(caRet[c].data)
            o == roundTrip(x, clientTimeout(client))
        IN
          IF o.kind = "hang"
          THEN /\ fetchResp' = [fetchResp EXCEPT ![c] = o]
               /\ pc' = [pc EXCEPT ![c] = "blocked"]
               /\ UNCHANGED <<ret, held>>
          ELSE IF o.kind = "error"
          THEN /\ fetchResp' = [fetchResp EXCEPT ![c] = o]
               /\ pc' = [pc EXCEPT ![c] = "done"]
               /\ ret' = [ret EXCEPT ![c] = Ret(Nil, EmptyStr, "transport")]
               /\ held' = [held EXCEPT ![c] =
                     IF client = "pinned" THEN closeIdle(@, client) ELSE @]
          ELSE /\ fetchResp' = [fetchResp EXCEPT ![c] = headOf(o)]
               /\ pc' = [pc EXCEPT ![c] = "fetchread"]
               /\ held' = [held EXCEPT ![c] = @ \cup openBody(client)]
               /\ ret' = ret
    /\ UNCHANGED <<fn, server, argToken, path, clusterToken, token, isTPM, nonce,
                   caRet, sent, probeResp, bootResp, tpmCall, resolveRet, accepted,
                   attempts>>

\* get, lines 101-105: the body is read and get returns; the body is
\* never closed.
FetchRead(c) ==
    /\ pc[c] = "fetchread"
    /\ \E o \in bodyReads(FetchOutcomes, fetchResp[c],
                           clientTimeout(fetchClient(caRet[c].data))) :
        LET client == fetchClient(caRet[c].data)
            left == held[c] \cup leftBy(client, o, FALSE)
        IN
          IF o.kind = "hang"
          THEN /\ pc' = [pc EXCEPT ![c] = "blocked"]
               /\ UNCHANGED <<fetchResp, ret, held>>
          ELSE /\ fetchResp' = [fetchResp EXCEPT ![c] = o]
               /\ ret' = [ret EXCEPT ![c] = fetchReturn(o, caRet[c].sum)]
               /\ held' = [held EXCEPT ![c] =
                     IF client = "pinned" THEN closeIdle(left, client) ELSE left]
               /\ pc' = [pc EXCEPT ![c] = "done"]
    /\ UNCHANGED <<fn, server, argToken, path, clusterToken, token, isTPM, nonce,
                   caRet, sent, probeResp, bootResp, tpmCall, resolveRet, accepted,
                   attempts>>

\* The caller has the result; the call's locals are gone.
Return(c) ==
    /\ pc[c] = "done"
    /\ pc' = [pc EXCEPT ![c] = "idle"]
    /\ fn' = [fn EXCEPT ![c] = "none"]
    /\ server' = [server EXCEPT ![c] = ServerOK]
    /\ argToken' = [argToken EXCEPT ![c] = <<>>]
    /\ path' = [path EXCEPT ![c] = ""]
    /\ clusterToken' = [clusterToken EXCEPT ![c] = FALSE]
    /\ token' = [token EXCEPT ![c] = <<>>]
    /\ isTPM' = [isTPM EXCEPT ![c] = FALSE]
    /\ nonce' = [nonce EXCEPT ![c] = <<>>]
    /\ caRet' = [caRet EXCEPT ![c] = NoRet]
    /\ ret' = [ret EXCEPT ![c] = NoRet]
    /\ sent' = [sent EXCEPT ![c] = <<>>]
    /\ probeResp' = [probeResp EXCEPT ![c] = NoResp]
    /\ bootResp' = [bootResp EXCEPT ![c] = NoResp]
    /\ tpmCall' = [tpmCall EXCEPT ![c] = NoTpmCall]
    /\ fetchResp' = [fetchResp EXCEPT ![c] = NoResp]
    /\ resolveRet' = [resolveRet EXCEPT ![c] = NoResolve]
    /\ held' = [held EXCEPT ![c] = {}]
    /\ UNCHANGED <<accepted, attempts>>

Next ==
    \/ \E c \in SeqCalls, f \in {"Get", "MachineGet"}, s \in Servers, t \in Tokens,
          p \in Paths : GetCall(c, f, s, t, p) /\ UNCHANGED secretVars
    \/ \E c \in SeqCalls, s \in Servers, t \in Tokens, ct \in BOOLEAN :
          CACertsCall(c, s, t, ct) /\ UNCHANGED secretVars
    \/ \E c \in SeqCalls : ResolveToken(c) /\ UNCHANGED secretVars
    \/ \E c \in SeqCalls : CACertsEntry(c) /\ UNCHANGED secretVars
    \/ \E c \in SeqCalls : ProbeSend(c) /\ UNCHANGED secretVars
    \/ \E c \in SeqCalls : ProbeAnswer(c) /\ UNCHANGED secretVars
    \/ \E c \in SeqCalls : ProbeRead(c) /\ UNCHANGED secretVars
    \/ \E c \in SeqCalls : BootstrapSend(c) /\ UNCHANGED secretVars
    \/ \E c \in SeqCalls : BootstrapAnswer(c) /\ UNCHANGED secretVars
    \/ \E c \in SeqCalls : BootstrapRead(c) /\ UNCHANGED secretVars
    \/ \E c \in SeqCalls : TpmGet(c) /\ UNCHANGED secretVars
    \/ \E c \in SeqCalls : FetchSend(c) /\ UNCHANGED secretVars
    \/ \E c \in SeqCalls : FetchAnswer(c) /\ UNCHANGED secretVars
    \/ \E c \in SeqCalls : FetchRead(c) /\ UNCHANGED secretVars
    \/ \E c \in SeqCalls : Return(c) /\ UNCHANGED secretVars

Spec == Init /\ [][Next]_vars

\* ------------------------------------------------------- concurrent calls

\* The inputs and responses of the concurrent specification: one token,
\* one body per endpoint, every kind of outcome.
ConcTokens == {<<>>, <<2>>}
ConcHeaders == {EmptyStr} \cup {hash(<<2>>, n, <<7>>) : n \in Nonces}

Small ==
    \A c \in Calls :
        /\ argToken[c] \in ConcTokens
        /\ token[c] \in ConcTokens
        /\ probeResp[c].body \in {Nil, <<>>}
        /\ probeResp[c].kind # "readerr"
        /\ probeResp[c].status \in {0, StatusOK}
        /\ bootResp[c].body \in {Nil, <<7>>}
        /\ bootResp[c].kind # "readerr"
        /\ bootResp[c].header \in ConcHeaders
        /\ fetchResp[c].body \in {Nil, <<8>>}
        /\ fetchResp[c].kind # "readerr"
        /\ ret[c].data \in {Nil, <<7>>, <<8>>}

\* Get, MachineGet and CACerts called from several goroutines: the steps
\* of the calls interleave in any order.
NextConc ==
    \/ \E c \in Calls, f \in {"Get", "MachineGet"}, s \in Servers, t \in Tokens,
          p \in Paths : GetCall(c, f, s, t, p) /\ Small' /\ UNCHANGED secretVars
    \/ \E c \in Calls, s \in Servers, t \in Tokens, ct \in BOOLEAN :
          CACertsCall(c, s, t, ct) /\ Small' /\ UNCHANGED secretVars
    \/ \E c \in Calls : ResolveToken(c) /\ Small' /\ UNCHANGED secretVars
    \/ \E c \in Calls : CACertsEntry(c) /\ Small' /\ UNCHANGED secretVars
    \/ \E c \in Calls : ProbeSend(c) /\ Small' /\ UNCHANGED secretVars
    \/ \E c \in Calls : ProbeAnswer(c) /\ Small' /\ UNCHANGED secretVars
    \/ \E c \in Calls : ProbeRead(c) /\ Small' /\ UNCHANGED secretVars
    \/ \E c \in Calls : BootstrapSend(c) /\ Small' /\ UNCHANGED secretVars
    \/ \E c \in Calls : BootstrapAnswer(c) /\ Small' /\ UNCHANGED secretVars
    \/ \E c \in Calls : BootstrapRead(c) /\ Small' /\ UNCHANGED secretVars
    \/ \E c \in Calls : TpmGet(c) /\ Small' /\ UNCHANGED secretVars
    \/ \E c \in Calls : FetchSend(c) /\ Small' /\ UNCHANGED secretVars
    \/ \E c \in Calls : FetchAnswer(c) /\ Small' /\ UNCHANGED secretVars
    \/ \E c \in Calls : FetchRead(c) /\ Small' /\ UNCHANGED secretVars
    \/ \E c \in Calls : Return(c) /\ Small' /\ UNCHANGED secretVars

SpecConc == Init /\ [][NextConc]_vars

\* ------------------------------------------------------- keys of the HMAC

\* CACerts called with the tokens that exercise the keying of the HMAC.
NextKeys ==
    \/ \E c \in SeqCalls, t \in KeyTokens :
          CACertsCall(c, ServerOK, t, TRUE) /\ UNCHANGED secretVars
    \/ \E c \in SeqCalls : CACertsEntry(c) /\ UNCHANGED secretVars
    \/ \E c \in SeqCalls : ProbeSend(c) /\ UNCHANGED secretVars
    \/ \E c \in SeqCalls : ProbeAnswer(c) /\ UNCHANGED secretVars
    \/ \E c \in SeqCalls : ProbeRead(c) /\ UNCHANGED secretVars
    \/ \E c \in SeqCalls : BootstrapSend(c) /\ UNCHANGED secretVars
    \/ \E c \in SeqCalls : BootstrapAnswer(c) /\ UNCHANGED secretVars
    \/ \E c \in SeqCalls : BootstrapRead(c) /\ UNCHANGED secretVars
    \/ \E c \in SeqCalls : Return(c) /\ UNCHANGED secretVars

SpecKeys == Init /\ [][NextKeys]_vars

\* ---------------------------------------------------- UpdateClientSecret

\* UpdateClientSecret, lines 88-89: the copy's data with the two keys set.
withSettings(data, url, ca) ==
    [k \in DOMAIN data \cup UpdatedKeys |->
        IF k = "apiServerURL" THEN url
        ELSE IF k = "apiServerCA" THEN ca
        ELSE data[k]]

\* UpdateClientSecret, lines 27-47: the kubeconfig, the REST configuration
\* and the dynamic client; NewForConfigOrDie panics on a bad configuration.
LoadKubeconfig ==
    /\ upc = "idle"
    /\ \E o \in {"ok", "kubeconfig", "config", "die"} :
           /\ upc' = IF o = "ok" THEN "serverurl"
                     ELSE IF o = "die" THEN "panic" ELSE "done"
           /\ uret' = IF o \in {"kubeconfig", "config"} THEN o ELSE uret
    /\ UNCHANGED <<urlRead, caRead, secret, toUpdate, writes, others>>
    /\ UNCHANGED callVars

\* UpdateClientSecret, lines 49-54: the read of internal-server-url; the
\* type assertion of line 53 panics when the object has no string value.
ReadServerURL ==
    /\ upc = "serverurl"
    /\ \E r \in SettingReads :
           /\ urlRead' = r
           /\ upc' = IF r.err # NoErr THEN "done"
                     ELSE IF r.value = Nil THEN "panic" ELSE "cacerts"
           /\ uret' = IF r.err # NoErr THEN r.err ELSE uret
    /\ UNCHANGED <<caRead, secret, toUpdate, writes, others>>
    /\ UNCHANGED callVars

\* UpdateClientSecret, lines 56-65: the read of internal-cacerts, the type
\* assertion of line 60, then the check that both values are set.
ReadCACerts ==
    /\ upc = "cacerts"
    /\ \E r \in SettingReads :
           /\ caRead' = r
           /\ IF r.err # NoErr
              THEN upc' = "done" /\ uret' = r.err
              ELSE IF r.value = Nil
              THEN upc' = "panic" /\ uret' = uret
              ELSE IF urlRead.value = EmptyStr \/ r.value = EmptyStr
              THEN upc' = "done" /\ uret' = "settings"
              ELSE upc' = "client" /\ uret' = uret
    /\ UNCHANGED <<urlRead, secret, toUpdate, writes, others>>
    /\ UNCHANGED callVars

\* UpdateClientSecret, lines 67-80: the typed client from the kubeconfig.
NewClient ==
    /\ upc = "client"
    /\ \E o \in {"ok", "readfile", "restconfig", "client"} :
           /\ upc' = IF o = "ok" THEN "secret" ELSE "done"
           /\ uret' = IF o = "ok" THEN uret ELSE o
    /\ UNCHANGED <<urlRead, caRead, secret, toUpdate, writes, others>>
    /\ UNCHANGED callVars

\* UpdateClientSecret, lines 82-89: Get of the secret, the copy, and the
\* two assignments, which panic on the nil map of a secret without data.
GetSecret ==
    /\ upc = "secret"
    /\ \E o \in {"ok", "error"} :
           IF o = "error" \/ ~secret.exists
           THEN /\ upc' = "done"
                /\ uret' = IF o = "error" THEN "get" ELSE "notfound"
                /\ toUpdate' = toUpdate
           ELSE IF ~secret.hasData
           THEN upc' = "panic" /\ uret' = uret /\ toUpdate' = secret
           ELSE /\ upc' = "update"
                /\ uret' = uret
                /\ toUpdate' = [secret EXCEPT
                       !.data = withSettings(secret.data, urlRead.value, caRead.value)]
    /\ UNCHANGED <<urlRead, caRead, secret, writes, others>>
    /\ UNCHANGED callVars

\* UpdateClientSecret, lines 90-96: Update replaces the object when the
\* copy's resourceVersion is the stored one, and fails otherwise.
UpdateSecret ==
    /\ upc = "update"
    /\ upc' = "done"
    /\ \E o \in {"ok", "error"} :
           IF o = "error" \/ ~secret.exists \/ toUpdate.rv # secret.rv
           THEN /\ uret' = IF o = "error" THEN "update"
                            ELSE IF ~secret.exists THEN "notfound" ELSE "conflict"
                /\ UNCHANGED <<secret, writes>>
           ELSE /\ uret' = NoErr
                /\ secret' = [toUpdate EXCEPT !.rv = secret.rv + 1]
                /\ writes' = Append(writes, [before |-> secret.data,
                                             after |-> toUpdate.data])
    /\ UNCHANGED <<urlRead, caRead, toUpdate, others>>
    /\ UNCHANGED callVars

\* Another client of the API server writes a key of the secret.
OtherWriter(k, v) ==
    /\ secret.exists
    /\ others < MaxOtherWrites
    /\ others' = others + 1
    /\ secret' = [secret EXCEPT
           !.hasData = TRUE,
           !.data = [j \in DOMAIN secret.data \cup {k} |->
                        IF j = k THEN v ELSE secret.data[j]],
           !.rv = secret.rv + 1]
    /\ UNCHANGED <<upc, urlRead, caRead, toUpdate, uret, writes>>
    /\ UNCHANGED callVars

NextSecret ==
    \/ LoadKubeconfig
    \/ ReadServerURL
    \/ ReadCACerts
    \/ NewClient
    \/ GetSecret
    \/ UpdateSecret
    \/ \E k \in Keys : OtherWriter(k, <<10>>)

InitAnySecret == InitCalls /\ \E s \in SecretStates : InitSecret(s)

SpecSecret == InitAnySecret /\ [][NextSecret]_vars

\* ------------------------------------------------------------- properties

Requests(c, kind) == {i \in 1..Len(sent[c]) : sent[c][i].kind = kind}

\* CACerts of call c has returned
CAReturned(c) == caRet[c].err # "pending"

\* The bootstrap request of call c was answered and the answer read whole
BootAnswered(c) == bootResp[c].kind = "resp"

\* The answer carried the hash of its own body under the call's token and nonce
BootHashMatches(c) ==
    bootResp[c].header = hash(token[c], nonce[c], bootResp[c].body)

CAFailed(c) ==
    /\ caRet[c].err \notin {NoErr, "pending"}
    /\ caRet[c].data = Nil
    /\ caRet[c].sum = EmptyStr

\* C1: the only bytes CACerts returns as a non-empty bundle, and the only
\* bytes get seeds the pinned pool with, are the body of a status-200
\* bootstrap response whose X-Cattle-Hash equalled the HMAC of that body
\* under the call's own token and nonce; with an empty bundle get fetches
\* through the default client, with no pool.
C1_TrustedBundleVerified ==
    \A c \in Calls :
        /\ (CAReturned(c) /\ len(caRet[c].data) > 0) =>
               /\ BootAnswered(c)
               /\ bootResp[c].status = StatusOK
               /\ caRet[c].data = bootResp[c].body
               /\ BootHashMatches(c)
        /\ \A i \in Requests(c, "fetch") :
               IF len(caRet[c].data) = 0
               THEN sent[c][i].client = "default" /\ sent[c][i].pool = Nil
               ELSE /\ sent[c][i].client = "pinned"
                    /\ sent[c][i].pool = bootResp[c].body
                    /\ BootAnswered(c) /\ BootHashMatches(c)
        /\ \A i \in 1..Len(sent[c]) :
               sent[c][i].kind # "fetch" => sent[c][i].pool = Nil

C1_Witness ==
    \E c \in Calls :
        /\ pc[c] = "done" /\ fn[c] = "Get" /\ ret[c].err = NoErr
        /\ \E i \in Requests(c, "fetch") :
               sent[c][i].client = "pinned" /\ sent[c][i].pool = <<7>>

\* C2: a status-200 bootstrap response whose X-Cattle-Hash differs from the
\* locally computed HMAC makes CACerts return (nil, "", error), and the
\* call returns no bytes to its caller.
C2_HashMismatchIsError ==
    \A c \in Calls :
        (BootAnswered(c) /\ bootResp[c].status = StatusOK /\ ~BootHashMatches(c)) =>
            /\ CAFailed(c)
            /\ pc[c] = "done"
            /\ ret[c] = Ret(Nil, EmptyStr, caRet[c].err)

C2_Witness ==
    \E c \in Calls, n \in Nonces :
        /\ BootAnswered(c) /\ bootResp[c].status = StatusOK
        /\ n # nonce[c]
        /\ bootResp[c].body = <<7>>
        /\ bootResp[c].header = hash(token[c], n, bootResp[c].body)
        /\ fn[c] = "MachineGet"
        /\ ret[c].err = "hash"

\* C3: a bootstrap response that passed the verification of an earlier
\* attempt is not accepted by a later attempt with the same token whose
\* nonce differs from the earlier one.
C3_ReplayRejected ==
    \A c \in Calls : \A h \in accepted :
        (/\ h.attempt < attempts
         /\ h.token = token[c]
         /\ h.nonce # nonce[c]
         /\ BootAnswered(c)
         /\ bootResp[c].body = h.body
         /\ bootResp[c].header = h.header) =>
            CAFailed(c)

C3_Witness ==
    \E c \in Calls : \E h \in accepted :
        /\ h.attempt < attempts
        /\ h.token = token[c]
        /\ h.nonce # nonce[c]
        /\ BootAnswered(c)
        /\ bootResp[c].status = StatusOK
        /\ bootResp[c].body = h.body
        /\ bootResp[c].header = h.header
        /\ h.body = <<7>>
        /\ caRet[c].err = "hash"

\* The header is the hash of <<t, n, b>>, which differs from what the call
\* verifies against in exactly one of token, nonce and body.
OneDiffers(c, t, n, b) ==
    Cardinality({k \in 1..3 :
        <<t, n, b>>[k] # <<token[c], nonce[c], bootResp[c].body>>[k]}) = 1

\* The return of CACerts for a status-200 answer with the right header
C4_Accepts(c) ==
    BootHashMatches(c) =>
        /\ caRet[c].err = NoErr
        /\ len(bootResp[c].body) > 0 =>
               caRet[c] = Ret(bootResp[c].body, hex(sha256(bootResp[c].body)), NoErr)

\* C4 as stated: a status-200 answer with body B and header
\* HMAC(T, N||0||B||0) is accepted and returned as (B, hex(sha256(B)), nil);
\* a header computed with any other token, nonce or body, and any other
\* header value, is rejected.
C4_AsStated ==
    \A c \in Calls :
        (BootAnswered(c) /\ bootResp[c].status = StatusOK) =>
            /\ C4_Accepts(c)
            /\ ~BootHashMatches(c) => CAFailed(c)
            /\ \A t \in KeyTokens, n \in Nonces, b \in Bodies :
                   (bootResp[c].header = hash(t, n, b) /\ OneDiffers(c, t, n, b)) =>
                       CAFailed(c)

\* C4, amended: as C4, but a header computed with another token is
\* rejected only if that token differs from the call's token as an HMAC
\* key: a token longer than 128 bytes is the same key as its SHA-512
\* digest, and trailing zero bytes of a key of at most 128 bytes do not
\* count.
C4_HashRoundTrip ==
    \A c \in Calls :
        (BootAnswered(c) /\ bootResp[c].status = StatusOK) =>
            /\ C4_Accepts(c)
            /\ ~BootHashMatches(c) => CAFailed(c)
            /\ \A t \in KeyTokens, n \in Nonces, b \in Bodies :
                   (/\ bootResp[c].header = hash(t, n, b)
                    /\ OneDiffers(c, t, n, b)
                    /\ t # token[c] => hmacKey(t) # hmacKey(token[c])) =>
                       CAFailed(c)

C4_Witness ==
    \E c \in Calls :
        /\ BootAnswered(c) /\ bootResp[c].status = StatusOK
        /\ token[c] = LongToken /\ nonce[c] = <<4>> /\ bootResp[c].body = <<7>>
        /\ bootResp[c].header = hash(ShortDigest, <<4>>, <<7>>)
        /\ hmacKey(LongToken) = ShortDigest
        /\ sha512(LongToken) = LongDigest
        /\ BootHashMatches(c)
        /\ caRet[c] = Ret(<<7>>, hashHex(<<7>>), NoErr)
        /\ \E a \in accepted : a.token = <<1>> /\ a.header # bootResp[c].header

\* C5: when the probe got any response, CACerts returns (nil, "", nil) and
\* the call has sent no bootstrap request.
C5_ProbeSuccessShortCircuits ==
    \A c \in Calls :
        probeResp[c].kind \in {"resp", "readerr"} =>
            /\ caRet[c] = Ret(Nil, EmptyStr, NoErr)
            /\ Requests(c, "bootstrap") = {}
            /\ bootResp[c] = NoResp

C5_Witness ==
    \E c \in Calls :
        /\ probeResp[c].kind = "resp"
        /\ probeResp[c].status = 500
        /\ probeResp[c].body = <<7>>
        /\ fn[c] = "CACerts"
        /\ pc[c] = "done"
        /\ ret[c] = Ret(Nil, EmptyStr, NoErr)

\* C6: a status-200 bootstrap answer with an empty body gives
\* (nil, "", nil) when its header verifies, and an error when it does not.
C6_EmptyBody ==
    \A c \in Calls :
        (BootAnswered(c) /\ bootResp[c].status = StatusOK /\ bootResp[c].body = <<>>) =>
            IF BootHashMatches(c)
            THEN caRet[c] = Ret(Nil, EmptyStr, NoErr)
            ELSE CAFailed(c)

C6_Witness ==
    \E c \in Calls :
        /\ BootAnswered(c) /\ bootResp[c].status = StatusOK /\ bootResp[c].body = <<>>
        /\ BootHashMatches(c)
        /\ caRet[c] = Ret(Nil, EmptyStr, NoErr)
        /\ pc[c] = "fetch"

\* C7: when CACerts succeeds its checksum is "" exactly for an empty bundle
\* and hex(sha256(bundle)) otherwise; when get succeeds its checksum is the
\* one CACerts returned in that call.
C7_Checksum ==
    \A c \in Calls :
        /\ caRet[c].err = NoErr =>
               /\ (caRet[c].sum = EmptyStr) <=> (len(caRet[c].data) = 0)
               /\ len(caRet[c].data) > 0 => caRet[c].sum = hex(sha256(caRet[c].data))
        /\ (pc[c] = "done" /\ ret[c].err = NoErr) => ret[c].sum = caRet[c].sum

C7_Witness ==
    \E c \in Calls :
        /\ pc[c] = "done" /\ fn[c] = "Get" /\ ret[c].err = NoErr
        /\ caRet[c].data = <<7>>
        /\ ret[c].data = <<8>>
        /\ ret[c].sum = hex(sha256(<<7>>))

\* C8: a bootstrap answer with a status other than 200 makes CACerts return
\* (nil, "", error), whatever its body and header.
C8_Non200IsError ==
    \A c \in Calls :
        (bootResp[c].kind \in {"resp", "readerr"} /\ bootResp[c].status # StatusOK) =>
            CAFailed(c)

C8_Witness ==
    \E c \in Calls :
        /\ BootAnswered(c)
        /\ bootResp[c].status = 500
        /\ bootResp[c].body = <<7>>
        /\ BootHashMatches(c)
        /\ caRet[c] = Ret(Nil, EmptyStr, "status")

\* C9: in MachineGet with a hardware-backed token no fetch request is sent,
\* a successful call has gone through tpm.Get, tpm.Get is given the bundle
\* CACerts returned, and the bootstrap request and the verification use
\* the resolved token.
C9_HardwareRoute ==
    \A c \in Calls :
        (fn[c] = "MachineGet" /\ isTPM[c]) =>
            /\ Requests(c, "fetch") = {}
            /\ \A i \in 1..Len(sent[c]) : sent[c][i].auth # Bearer(base64Raw(token[c]))
            /\ (pc[c] = "done" /\ ret[c].err = NoErr) => tpmCall[c].called
            /\ tpmCall[c].called =>
                   /\ caRet[c].err = NoErr
                   /\ tpmCall[c].cacert = caRet[c].data
            /\ \A i \in Requests(c, "bootstrap") :
                   sent[c][i].auth = Bearer(hashBase64(token[c]))
            /\ (BootAnswered(c) /\ caRet[c].err = NoErr) => BootHashMatches(c)

C9_Witness ==
    \E c \in Calls :
        /\ fn[c] = "MachineGet" /\ isTPM[c]
        /\ argToken[c] = <<1>> /\ token[c] = <<2>>
        /\ Requests(c, "bootstrap") # {}
        /\ tpmCall[c].called /\ tpmCall[c].cacert = <<7>>
        /\ pc[c] = "done" /\ ret[c].err = NoErr

\* C10: every return with a non-nil error carries no body or bundle bytes
\* (a nil slice, or at least an empty one) and an empty checksum.
C10_NoPartialSuccess ==
    \A c \in Calls :
        /\ (CAReturned(c) /\ caRet[c].err # NoErr) =>
               len(caRet[c].data) = 0 /\ caRet[c].sum = EmptyStr
        /\ (pc[c] = "done" /\ ret[c].err # NoErr) =>
               len(ret[c].data) = 0 /\ ret[c].sum = EmptyStr

\* C11: the probe and the bootstrap request carry no Authorization value
\* other than base64(sha256(token)), and never base64(token); a request
\* that carries base64(token) is the resource fetch of get, sent through
\* the pinned or the default client, never through the skip-verify client.
C11_RawTokenNotInBootstrap ==
    \A c \in Calls : \A i \in 1..Len(sent[c]) :
        /\ sent[c][i].kind = "probe" => sent[c][i].auth = NoAuth
        /\ sent[c][i].kind = "bootstrap" =>
               /\ sent[c][i].auth = Bearer(base64(sha256(token[c])))
               /\ sent[c][i].client = "insecure"
        /\ sent[c][i].kind \in {"probe", "bootstrap"} =>
               \A t \in Tokens : sent[c][i].auth # Bearer(base64Raw(t))
        /\ (\E t \in Tokens : sent[c][i].auth = Bearer(base64Raw(t))) =>
               /\ sent[c][i].kind = "fetch"
               /\ sent[c][i].client \in {"pinned", "default"}
        /\ sent[c][i].client = "insecure" => sent[c][i].kind = "bootstrap"

C11_Witness ==
    \E c \in Calls : \E i, j \in 1..Len(sent[c]) :
        /\ fn[c] = "MachineGet"
        /\ sent[c][i].kind = "bootstrap"
        /\ sent[c][i].auth = Bearer(base64(sha256(<<2>>)))
        /\ sent[c][j].kind = "fetch"
        /\ sent[c][j].client = "pinned"
        /\ sent[c][j].auth = Bearer(base64Raw(<<2>>))

\* C12: when the resource fetch of get is answered with a status other than
\* 200, get returns (nil, "", error), also when CACerts had returned a
\* checksum; get returns bytes of a fetched body only for status 200.
C12_FetchNon200IsError ==
    \A c \in Calls :
        /\ (fetchResp[c].kind \in {"resp", "readerr"} /\ fetchResp[c].status # StatusOK) =>
               /\ ret[c].data = Nil
               /\ ret[c].sum = EmptyStr
               /\ ret[c].err \notin {NoErr, "pending"}
        /\ (pc[c] = "done" /\ fn[c] \in {"Get", "MachineGet"} /\ ~isTPM[c]
               /\ len(ret[c].data) > 0) =>
               fetchResp[c].status = StatusOK

C12_Witness ==
    \E c \in Calls :
        /\ caRet[c] = Ret(<<7>>, hashHex(<<7>>), NoErr)
        /\ fetchResp[c].kind = "resp"
        /\ fetchResp[c].status = 500
        /\ fetchResp[c].body = <<8>>
        /\ ret[c] = Ret(Nil, EmptyStr, "status")

InGet(c) == fn[c] \in {"Get", "MachineGet"}

LastRequestIs(c, kind) == sent[c] # <<>> /\ sent[c][Len(sent[c])].kind = kind

\* C14: a call sends at most one probe, one bootstrap request and one
\* fetch; the bootstrap request follows a probe that failed; a failure of
\* token resolution, of the bootstrap exchange or of the fetch ends the
\* call with that error, and no request follows it.
C14_NoRetry ==
    \A c \in Calls :
        /\ \A k \in {"probe", "bootstrap", "fetch"} : Cardinality(Requests(c, k)) <= 1
        /\ \A i \in Requests(c, "bootstrap") :
               /\ probeResp[c].kind = "error"
               /\ \E j \in Requests(c, "probe") : j < i
        /\ (resolveRet[c].called /\ resolveRet[c].err # NoErr) =>
               /\ pc[c] = "done" /\ ret[c].err = resolveRet[c].err
               /\ sent[c] = <<>>
        /\ (bootResp[c].kind \in {"error", "resp", "readerr"} /\ caRet[c].err # NoErr) =>
               /\ pc[c] = "done" /\ ret[c].err = caRet[c].err
               /\ caRet[c].err \in {"transport", "read", "status", "hash"}
               /\ LastRequestIs(c, "bootstrap")
        /\ (fetchResp[c].kind \in {"error", "resp", "readerr"}) =>
               /\ pc[c] = "done"
               /\ LastRequestIs(c, "fetch")
               /\ fetchResp[c].kind = "error" => ret[c].err = "transport"

C14_Witness ==
    \E c \in Calls :
        /\ fn[c] = "Get"
        /\ probeResp[c].kind = "error"
        /\ bootResp[c].kind = "error"
        /\ Len(sent[c]) = 2
        /\ pc[c] = "done"
        /\ ret[c] = Ret(Nil, EmptyStr, "transport")

\* C15: when nonce generation fails or the server URL is malformed, CACerts
\* returns an error and has sent no request; get with a malformed server
\* URL returns the error without resolving the token, calling CACerts or
\* sending a request.
C15_ConfigurationErrorsFirst ==
    \A c \in Calls :
        /\ caRet[c].err \in {"nonce", "parse"} =>
               /\ sent[c] = <<>>
               /\ caRet[c].data = Nil /\ caRet[c].sum = EmptyStr
               /\ pc[c] = "done" /\ ret[c].err = caRet[c].err
        /\ (pc[c] # "idle" /\ ~(server[c] = ServerOK)) =>
               /\ sent[c] = <<>>
               /\ ~tpmCall[c].called
               /\ InGet(c) =>
                      /\ pc[c] = "done"
                      /\ ret[c] = Ret(Nil, EmptyStr, "parse")
                      /\ ~resolveRet[c].called
                      /\ ~CAReturned(c)
               /\ (fn[c] = "CACerts" /\ pc[c] = "done") => ret[c].err \in {"nonce", "parse"}

C15_Witness ==
    \E c \in Calls :
        /\ fn[c] = "MachineGet"
        /\ server[c] = ServerBad
        /\ pc[c] = "done"
        /\ ret[c] = Ret(Nil, EmptyStr, "parse")

\* C16: every round trip of CACerts and get is bounded by the fixed
\* timeout, so no call waits forever for a server that never answers.
C16_RoundTripsBounded ==
    \A c \in Calls :
        pc[c] = "blocked" =>
            /\ \A i \in 1..Len(sent[c]) : sent[c][i].timeout = Timeout
            /\ FALSE

\* C17: every request goes through a client of the call's own, and a call
\* that has returned holds no connection and no response body.
C17_ResourcesReleased ==
    \A c \in Calls :
        pc[c] = "done" =>
            /\ \A i \in 1..Len(sent[c]) : ~clientShared(sent[c][i].client)
            /\ held[c] = {}

\* C19: in get the resource request (the fetch, or the call of tpm.Get)
\* is made only after tpm.ResolveToken (machine variant) and then CACerts
\* have returned without error; when either fails get returns that error,
\* and no request goes to the resource path.
C19_FetchAfterResolveAndCACerts ==
    \A c \in Calls :
        /\ (fn[c] = "MachineGet" /\ (CAReturned(c) \/ sent[c] # <<>> \/ nonce[c] # <<>>
                \/ pc[c] \in {"cacerts", "probe", "probewait", "proberead", "bootstrap",
                             "bootwait", "bootread", "tpmget", "fetch", "fetchwait",
                             "fetchread"})) =>
               resolveRet[c].called /\ resolveRet[c].err = NoErr
        /\ fn[c] = "Get" => ~resolveRet[c].called
        /\ (Requests(c, "fetch") # {} \/ tpmCall[c].called
                \/ pc[c] \in {"tpmget", "fetch", "fetchwait", "fetchread"}) =>
               /\ InGet(c)
               /\ caRet[c].err = NoErr
        /\ (resolveRet[c].called /\ resolveRet[c].err # NoErr) =>
               /\ pc[c] = "done"
               /\ ret[c] = Ret(Nil, EmptyStr, resolveRet[c].err)
               /\ ~CAReturned(c) /\ sent[c] = <<>> /\ ~tpmCall[c].called
        /\ (InGet(c) /\ CAReturned(c) /\ caRet[c].err # NoErr) =>
               /\ pc[c] = "done"
               /\ ret[c] = Ret(Nil, EmptyStr, caRet[c].err)
               /\ Requests(c, "fetch") = {} /\ ~tpmCall[c].called
        /\ \A i \in 1..Len(sent[c]) :
               sent[c][i].url[2] = path[c] <=> sent[c][i].kind = "fetch"

C19_Witness ==
    \E c \in Calls :
        /\ fn[c] = "MachineGet"
        /\ resolveRet[c].called /\ ~resolveRet[c].isTPM
        /\ bootResp[c].kind = "resp"
        /\ caRet[c].err = NoErr
        /\ LastRequestIs(c, "fetch")
        /\ pc[c] = "done" /\ ret[c].err = NoErr

\* Get in slot c and MachineGet in slot d were given the same arguments,
\* nonce and responses, the token was not hardware-backed, and both have
\* returned.
SameRun(c, d) ==
    /\ fn[c] = "Get" /\ fn[d] = "MachineGet"
    /\ pc[c] = "done" /\ pc[d] = "done"
    /\ resolveRet[d].called /\ resolveRet[d].err = NoErr /\ ~resolveRet[d].isTPM
    /\ server[c] = server[d] /\ argToken[c] = argToken[d] /\ path[c] = path[d]
    /\ nonce[c] = nonce[d]
    /\ probeResp[c] = probeResp[d]
    /\ bootResp[c] = bootResp[d]
    /\ fetchResp[c] = fetchResp[d]

\* The requests of the two calls differ only in the path of the cacerts
\* endpoint and in the Authorization header of the fetch.
SameRequests(c, d) ==
    /\ Len(sent[c]) = Len(sent[d])
    /\ \A i \in 1..Len(sent[c]) :
           LET a == sent[c][i]
               b == sent[d][i]
           IN /\ a.kind = b.kind /\ a.client = b.client /\ a.pool = b.pool
              /\ a.nonce = b.nonce /\ a.timeout = b.timeout
              /\ a.url[1] = b.url[1]
              /\ a.kind = "fetch" => a.url[2] = b.url[2]
              /\ a.kind # "fetch" =>
                     /\ a.auth = b.auth
                     /\ a.url[2] = "/cacerts" /\ b.url[2] = "/v1-rancheros/cacerts"

\* What C13 says of Get, of the bearer header and of the two variants.
C13_Rest ==
    /\ \A c \in Calls :
           /\ fn[c] = "Get" =>
                  /\ ~resolveRet[c].called
                  /\ \A i \in 1..Len(sent[c]) :
                         sent[c][i].auth \in {NoAuth, Bearer(hashBase64(token[c]))}
                  /\ \A i \in Requests(c, "fetch") : sent[c][i].auth = NoAuth
           /\ fn[c] = "MachineGet" =>
                  /\ pc[c] = "resolve" =>
                         sent[c] = <<>> /\ ~CAReturned(c) /\ ~tpmCall[c].called
                  /\ \A i \in Requests(c, "fetch") :
                         /\ ~isTPM[c]
                         /\ sent[c][i].auth = Bearer(base64Raw(resolveRet[c].token))
    /\ \A c, d \in Calls :
           SameRun(c, d) =>
               /\ ret[c] = ret[d]
               /\ caRet[c] = caRet[d]
               /\ held[c] = held[d]
               /\ SameRequests(c, d)

\* C13 as stated: Get never calls the token resolver and sends no
\* Authorization header with the fetch; MachineGet always calls the
\* resolver first and sends Bearer base64(resolved token) with the fetch
\* when the token is not hardware-backed; the variants differ in nothing
\* else but the path of the cacerts endpoint.
C13_AsStated ==
    /\ C13_Rest
    /\ \A c \in Calls :
           (fn[c] = "MachineGet" /\ pc[c] # "resolve") => resolveRet[c].called

\* C13, amended: as C13, but MachineGet calls the resolver first only when
\* the server URL parses; with a malformed server URL it returns the parse
\* error without calling the resolver.
C13_Variants ==
    /\ C13_Rest
    /\ \A c \in Calls :
           (fn[c] = "MachineGet" /\ pc[c] # "resolve") =>
               IF parseOK(server[c])
               THEN resolveRet[c].called
               ELSE ~resolveRet[c].called /\ ret[c] = Ret(Nil, EmptyStr, "parse")

C13_Witness ==
    \E c, d \in Calls :
        /\ SameRun(c, d)
        /\ bootResp[c].kind = "resp"
        /\ ret[d] = Ret(<<8>>, hashHex(<<7>>), NoErr)
        /\ \E i \in Requests(d, "fetch") :
               /\ sent[d][i].auth = Bearer(base64Raw(<<2>>))
               /\ sent[c][i].auth = NoAuth

\* The result CACerts has for call c, from the responses to the call's own
\* requests and the call's own token and nonce.
OwnCAResult(c) ==
    IF probeResp[c].kind \in {"resp", "readerr"} THEN Ret(Nil, EmptyStr, NoErr)
    ELSE IF bootResp[c].kind = "error" THEN Ret(Nil, EmptyStr, "transport")
    ELSE IF bootResp[c].kind = "readerr" THEN Ret(Nil, EmptyStr, "read")
    ELSE IF bootResp[c].status # StatusOK THEN Ret(Nil, EmptyStr, "status")
    ELSE IF bootResp[c].header # hash(token[c], nonce[c], bootResp[c].body)
    THEN Ret(Nil, EmptyStr, "hash")
    ELSE IF bootResp[c].body = <<>> THEN Ret(Nil, EmptyStr, NoErr)
    ELSE Ret(bootResp[c].body, hex(sha256(bootResp[c].body)), NoErr)

\* The result get has for call c after its own fetch was answered.
OwnFetchResult(c) ==
    IF fetchResp[c].kind = "error" THEN Ret(Nil, EmptyStr, "transport")
    ELSE IF fetchResp[c].status # StatusOK THEN Ret(Nil, EmptyStr, "status")
    ELSE Ret(fetchResp[c].body, OwnCAResult(c).sum,
             IF fetchResp[c].kind = "readerr" THEN "read" ELSE NoErr)

\* C18: with the steps of concurrent calls interleaved in any order, what
\* each call sends and returns is determined by its own arguments, nonce
\* and responses, and a bootstrap response that carries the hash for
\* another call's nonce is rejected.
C18_CallsIndependent ==
    \A c \in Calls :
        /\ (probeResp[c].kind \in {"resp", "readerr"}
                \/ bootResp[c].kind \in {"error", "resp", "readerr"}) =>
               caRet[c] = OwnCAResult(c)
        /\ (probeResp[c].kind = "head" \/ bootResp[c].kind = "head") => ~CAReturned(c)
        /\ fetchResp[c].kind = "head" => ret[c].err = "pending"
        /\ \A i \in Requests(c, "bootstrap") :
               /\ sent[c][i].nonce = nonce[c]
               /\ sent[c][i].auth = Bearer(base64(sha256(token[c])))
        /\ \A i \in Requests(c, "fetch") :
               sent[c][i].pool = OwnCAResult(c).data
        /\ fetchResp[c].kind \in {"error", "resp", "readerr"} =>
               ret[c] = OwnFetchResult(c)
        /\ tpmCall[c].called =>
               /\ tpmCall[c].cacert = OwnCAResult(c).data
               /\ ret[c].sum = OwnCAResult(c).sum
        /\ (fn[c] = "CACerts" /\ pc[c] = "done") => ret[c] = caRet[c]
        /\ \A d \in Calls \ {c} :
               (/\ bootResp[c].kind = "resp"
                /\ nonce[d] # nonce[c]
                /\ bootResp[c].header = hash(token[d], nonce[d], bootResp[c].body)) =>
                   CAFailed(c)

C18_Witness ==
    \E c \in Calls : \E d \in Calls \ {c} :
        /\ pc[d] = "fetchread" /\ fetchResp[d].kind = "head"
        /\ bootResp[d].kind = "resp" /\ caRet[d].err = NoErr
        /\ bootResp[c] = bootResp[d]
        /\ token[c] = token[d]
        /\ nonce[c] # nonce[d]
        /\ caRet[c].err = "hash"

\* A read of a setting failed, or a setting was read with an empty value.
ReadFailed == urlRead.err = "get" \/ caRead.err = "get"
ValueEmpty ==
    \/ urlRead.err = NoErr /\ urlRead.value = EmptyStr
    \/ caRead.err = NoErr /\ caRead.value = EmptyStr

\* The secret is written only after both settings were read and both
\* values are non-empty.
WrittenAfterReads ==
    writes # <<>> =>
        /\ urlRead.err = NoErr /\ caRead.err = NoErr
        /\ len(urlRead.value) > 0 /\ len(caRead.value) > 0

\* An update changes the two keys and no other key of the stored data.
OnlyTwoKeys ==
    /\ uret = NoErr => Len(writes) = 1
    /\ \A i \in 1..Len(writes) :
           LET w == writes[i]
           IN /\ DOMAIN w.after = DOMAIN w.before \cup UpdatedKeys
              /\ w.after["apiServerURL"] = urlRead.value
              /\ w.after["apiServerCA"] = caRead.value
              /\ \A k \in DOMAIN w.before \ UpdatedKeys : w.after[k] = w.before[k]

\* C20: UpdateClientSecret writes the secret only after both settings
\* were read and are non-empty; once a read has failed or a value is
\* empty and the second read is over, it has returned an error and has
\* not written the secret; a successful update changes only the keys
\* apiServerURL and apiServerCA.
C20_SecretUpdate ==
    /\ WrittenAfterReads
    /\ OnlyTwoKeys
    /\ ((ReadFailed \/ ValueEmpty) /\ upc \notin {"serverurl", "cacerts"}) =>
           /\ upc = "done"
           /\ uret \notin {"pending", NoErr}
           /\ writes = <<>>

====
